---- MODULE Spec2Model ----
(***************************************************************************)
(* Model of examples/podcast_assistant.py: the startup checks, the scoped  *)
(* tool-process (MCPServerStdio), the PodcastAssistant session object and   *)
(* the command loop of interactive_mode.                                    *)
(*                                                                          *)
(* Python strings are sequences of one-character strings, so that lower(),  *)
(* startswith(), slicing, strip(), replace(), split() and int() are         *)
(* computed the way the interpreter computes them.  Python's None is the    *)
(* value None below, which is not a sequence of characters.                 *)
(***************************************************************************)
EXTENDS Integers, Sequences, FiniteSets, TLC

\* Number of prompts the command loop shows in one modelled session.
MaxCommands == 3

None == <<"None">>

(***************************************************************************)
(* Python str operations                                                    *)
(***************************************************************************)
UpperChars == <<"A","B","C","D","E","F","G","H","I","J","K","L","M",
                "N","O","P","Q","R","S","T","U","V","W","X","Y","Z">>

LowerChars == <<"a","b","c","d","e","f","g","h","i","j","k","l","m",
                "n","o","p","q","r","s","t","u","v","w","x","y","z">>

DigitChars == <<"0","1","2","3","4","5","6","7","8","9">>

Whitespace == {" ", "\t", "\n", "\r"}

\* str.lower() on one character
LowerChar(c) ==
    IF \E i \in 1..Len(UpperChars) : UpperChars[i] = c
    THEN LowerChars[CHOOSE i \in 1..Len(UpperChars) : UpperChars[i] = c]
    ELSE c

\* s.lower()
Lower(s) == [i \in 1..Len(s) |-> LowerChar(s[i])]

\* s.startswith(p)
StartsWith(s, p) == Len(s) >= Len(p) /\ SubSeq(s, 1, Len(p)) = p

\* s[n:]
From(s, n) == IF n >= Len(s) THEN <<>> ELSE SubSeq(s, n + 1, Len(s))

\* s.strip(): from the first to the last character that is not whitespace
Strip(s) ==
    LET keep == {i \in 1..Len(s) : s[i] \notin Whitespace}
    IN IF keep = {} THEN <<>>
       ELSE SubSeq(s, CHOOSE i \in keep : \A j \in keep : i <= j,
                      CHOOSE i \in keep : \A j \in keep : i >= j)

\* s[i:].startswith(p), i counted from 1
MatchAt(s, i, p) == i + Len(p) - 1 <= Len(s) /\ SubSeq(s, i, i + Len(p) - 1) = p

\* p in s
Contains(s, p) == \E i \in 1..(Len(s) + 1) : MatchAt(s, i, p)

\* s.replace(old, ""), old non-empty: every non-overlapping occurrence, scanning
\* from the left
Remove(s, old) ==
    LET rest[i \in 1..(Len(s) + 1)] ==
            IF i > Len(s) THEN <<>>
            ELSE IF MatchAt(s, i, old) THEN rest[i + Len(old)]
            ELSE <<s[i]>> \o rest[i + 1]
    IN rest[1]

\* the places where s.split(sep) cuts: the starts of the non-overlapping
\* occurrences of sep, scanning from the left
Cuts(s, sep) ==
    LET starts[i \in 1..(Len(s) + 1)] ==
            IF i > Len(s) THEN <<>>
            ELSE IF MatchAt(s, i, sep) THEN <<i>> \o starts[i + Len(sep)]
            ELSE starts[i + 1]
    IN starts[1]

\* s.split(sep), sep non-empty: the sequence of pieces
PiecesAt(s, sep, cuts) ==
    [k \in 1..(Len(cuts) + 1) |->
        SubSeq(s, IF k = 1 THEN 1 ELSE cuts[k - 1] + Len(sep),
                  IF k = Len(cuts) + 1 THEN Len(s) ELSE cuts[k] - 1)]

Split(s, sep) == PiecesAt(s, sep, Cuts(s, sep))

\* [x for x in xs if p in x]
LinesWith(xs, p) == SelectSeq(xs, LAMBDA x : Contains(x, p))

IsDigit(c) == \E i \in 1..Len(DigitChars) : DigitChars[i] = c

DigitVal(c) == (CHOOSE i \in 1..Len(DigitChars) : DigitChars[i] = c) - 1

\* the text int() accepts after its own strip(): an optional sign, then digits
\* in groups separated by single underscores
IntBody(s) == IF s # <<>> /\ s[1] \in {"+", "-"} THEN Tail(s) ELSE s

IsDigitGroups(b) ==
    /\ b # <<>>
    /\ \A i \in 1..Len(b) : IsDigit(b[i]) \/ b[i] = "_"
    /\ b[1] # "_"
    /\ b[Len(b)] # "_"
    /\ \A i \in 1..(Len(b) - 1) : ~(b[i] = "_" /\ b[i + 1] = "_")

\* int(t) returns, where it raises ValueError otherwise
IsIntLiteral(t) == IsDigitGroups(IntBody(Strip(t)))

\* the value of the digits of b, underscores skipped
DigitsValue(b) ==
    LET val[i \in 0..Len(b)] ==
            IF i = 0 THEN 0
            ELSE IF b[i] = "_" THEN val[i - 1]
            ELSE 10 * val[i - 1] + DigitVal(b[i])
    IN val[Len(b)]

Signed(s, magnitude) == IF s[1] = "-" THEN 0 - magnitude ELSE magnitude

\* int(t) for a text IsIntLiteral accepts
IntValue(t) == Signed(Strip(t), DigitsValue(IntBody(Strip(t))))

\* Python truthiness of a str-or-None value
Truthy(x) == x # None /\ x # <<>>

(***************************************************************************)
(* Text constants of the program                                            *)
(***************************************************************************)
PrefixFeed == <<"f","e","e","d"," ">>

PrefixFind == <<"f","i","n","d"," ">>

PrefixSummarize == <<"s","u","m","m","a","r","i","z","e"," ">>

CmdHelp == <<"h","e","l","p">>

CmdExit == <<"e","x","i","t">>

PhraseEpisode == <<"w","h","i","c","h"," ","e","p","i","s","o","d","e">>

PhraseEposide == <<"w","h","i","c","h"," ","e","p","o","s","i","d","e">>

IsAbout == <<"i","s"," ","a","b","o","u","t"," ">>

About == <<"a","b","o","u","t"," ">>

TitleMarker == <<"T","i","t","l","e",":">>

ContextHead == <<"U","s","i","n","g"," ","t","h","e"," ","p","o","d","c","a","s","t"," ",
                 "f","e","e","d"," ">>

ContextTail == <<":"," ">>

(***************************************************************************)
(* The environment: what Runner.run can answer, what the user can type      *)
(***************************************************************************)
NoExc == "none"

OutPlain == <<"1","."," ","e","p">>

OutTitleA == <<"T","i","t","l","e",":"," ","A","\n","1","."," ","e","p">>

OutTitleB == <<"S","h","o","w"," ","T","i","t","l","e",":"," ","B"," ","\n",
               "T","i","t","l","e",":"," ","C">>

\* final_output of a run that returns: a text, or a value that is not a str
Outputs == {OutPlain, OutTitleA, OutTitleB, None}

\* Runner.run returns a result or raises; ValueError is told apart because
\* process_command has a handler for it, RuntimeError stands for every other
\* failure of the agent runner or of the tool-process
Responses ==
    [status : {"ok"}, output : Outputs, exc : {NoExc}]
        \cup [status : {"raise"}, output : {None}, exc : {"ValueError", "RuntimeError"}]

U1 == <<"u","1">>

\* the lines input() can return in the model
Lines ==
    {<<"f","e","e","d"," ","u","1">>,
     <<"F","e","e","d"," "," ","u","2"," ">>,
     <<"f","e","e","d"," ">>,
     <<"f","e","e","d">>,
     <<"f","i","n","d"," ","T","e","a">>,
     <<"F","I","N","D"," "," ","t","e","a"," ">>,
     <<"f","i","n","d"," ">>,
     <<"f","i","n","d">>,
     <<"s","u","m","m","a","r","i","z","e"," ","3">>,
     <<"S","u","m","m","a","r","i","z","e"," ","0","3"," ">>,
     <<"s","u","m","m","a","r","i","z","e"," ","-","1">>,
     <<"s","u","m","m","a","r","i","z","e"," ","1","_","0">>,
     <<"s","u","m","m","a","r","i","z","e"," ","3","x">>,
     <<"s","u","m","m","a","r","i","z","e"," ">>,
     <<"s","u","m","m","a","r","i","z","e">>,
     <<"h","e","l","p">>,
     <<"H","e","l","p">>,
     <<"h","e","l","p"," ">>,
     <<"e","x","i","t">>,
     <<"E","x","i","t">>,
     <<"e","x","i","t"," ">>,
     <<"w","h","i","c","h"," ","e","p","i","s","o","d","e">>,
     <<"w","h","i","c","h"," ","e","p","i","s","o","d","e"," ","i","s"," ","a","b","o",
       "u","t"," ","T","e","a">>,
     <<"W","h","i","c","h"," ","E","p","o","s","i","d","e"," ","a","b","o","u","t"," ",
       "t","e","a">>,
     <<"w","h","i","c","h"," ","e","p","i","s","o","d","e"," ","i","s"," ","a","b","o",
       "u","t">>,
     <<"w","h","i","c","h"," ","e","p","i","s","o","d","e","s"," ","a","b","o","u","t",
       " ","t","e","a">>,
     <<"w","h","i","c","h"," ","e","p","i","s","o","d","e"," ","i","s"," ","a","b","o",
       "u","t"," ","a","b","o","u","t"," ","t","e","a">>,
     <<"w","h","i","c","h"," ","e","p","i","s","o","d","e"," ","t","e","a"," ","w","h",
       "i","c","h"," ","e","p","i","s","o","d","e">>,
     <<"w","h","i","c","h"," ","e","p","i","s","o","d","e"," ","w","h","i","c","h"," ",
       "e","p","w","h","i","c","h"," ","e","p","i","s","o","d","e","o","s","i","d","e">>,
     <<"h","i">>,
     <<"T","e","a","?">>}

(***************************************************************************)
(* PodcastAssistant                                                         *)
(***************************************************************************)
\* _create_agent: the instructions are the base text, then the feed context
\* when with_feed is truthy, then the title sentence when the title is truthy
\* too.  instr_feed and instr_title are the feed URL and the title the
\* instructions name, None where they name none.
CreateAgent(podcast_title, with_feed) ==
    [instr_feed  |-> IF Truthy(with_feed) THEN with_feed ELSE None,
     instr_title |-> IF Truthy(with_feed) /\ Truthy(podcast_title)
                     THEN podcast_title ELSE None]

\* __init__
NewAssistant ==
    [agent |-> CreateAgent(None, None), feed_url |-> None, podcast_title |-> None]

\* the title-extraction block of _fetch_feed on one response: whether it
\* assigns podcast_title, and the title it assigns.  On a final_output that is
\* not a str the test raises TypeError, which the block swallows.
TitleFrom(title_line) ==
    IF title_line # <<>>
    THEN [found |-> TRUE, title |-> Strip(Split(title_line[1], TitleMarker)[2])]
    ELSE [found |-> FALSE, title |-> None]

ParseTitle(response_text) ==
    IF response_text # None /\ Contains(response_text, TitleMarker)
    THEN TitleFrom(LinesWith(Split(response_text, <<"\n">>), TitleMarker))
    ELSE [found |-> FALSE, title |-> None]

\* ParseTitle, computed once for each response of the model
TitleTable == {<<o, ParseTitle(o)>> : o \in Outputs}

TitleOf(o) == (CHOOSE p \in TitleTable : p[1] = o)[2]

Assigned(podcast_title, t) == IF t.found THEN t.title ELSE podcast_title

\* podcast_title after the title-extraction block
ExtractTitle(podcast_title, response_text) ==
    Assigned(podcast_title, TitleOf(response_text))

\* What a method did: the assistant afterwards, the Runner.run calls it made,
\* the messages it printed, and the exception it let out (NoExc: it returned)
Effect(a, calls, printed, exc) ==
    [a |-> a, calls |-> calls, printed |-> printed, exc |-> exc]

FetchInput(feed_url) == [kind |-> "fetch", feed |-> feed_url]

FindInput(feed_url, topic) == [kind |-> "find", feed |-> feed_url, topic |-> topic]

SummarizeInput(feed_url, n) == [kind |-> "summarize", feed |-> feed_url, episode |-> n]

QueryInput(text) == [kind |-> "query", text |-> text]

RunCall(a, input) == [agent |-> a.agent, input |-> input]

\* the assignments of _fetch_feed with the assignment of feed_url left out
Fetched_UrlNotStored(a, feed_url, title) ==
    [agent |-> CreateAgent(title, feed_url), feed_url |-> a.feed_url,
     podcast_title |-> title]

\* the assignments of _fetch_feed with the agent built for the previous feed
Fetched_StaleAgent(a, feed_url, title) ==
    [agent |-> CreateAgent(title, a.feed_url), feed_url |-> feed_url,
     podcast_title |-> title]

\* the assignments of _fetch_feed after Runner.run has returned: feed_url, then
\* podcast_title, then the agent built from both
Fetched(a, feed_url, title) ==
    [agent |-> CreateAgent(title, feed_url), feed_url |-> feed_url,
     podcast_title |-> title]

\* _fetch_feed
FetchFeed(a, feed_url, resp) ==
    IF resp.status = "raise"
    THEN Effect(a, <<RunCall(a, FetchInput(feed_url))>>, <<"Fetching">>, resp.exc)
    ELSE Effect(Fetched(a, feed_url, ExtractTitle(a.podcast_title, resp.output)),
                <<RunCall(a, FetchInput(feed_url))>>,
                <<"Fetching">>
                    \o (IF TitleOf(resp.output).found THEN <<"PodcastTitle">> ELSE <<>>)
                    \o <<"Output">>,
                NoExc)

\* start
Start(a, feed_url, resp) ==
    IF Truthy(feed_url)
    THEN FetchFeed([a EXCEPT !.feed_url = feed_url], feed_url, resp)
    ELSE Effect(a, <<>>, <<>>, NoExc)

\* find_episodes_by_topic with the test of feed_url left out
FindEpisodesByTopic_NoGuard(a, topic, resp) ==
    IF resp.status = "raise"
    THEN Effect(a, <<RunCall(a, FindInput(a.feed_url, topic))>>, <<"Searching">>,
                resp.exc)
    ELSE Effect(a, <<RunCall(a, FindInput(a.feed_url, topic))>>,
                <<"Searching", "Output">>, NoExc)

\* find_episodes_by_topic
FindEpisodesByTopic(a, topic, resp) ==
    IF ~Truthy(a.feed_url)
    THEN Effect(a, <<>>, <<"NoFeedLoaded">>, NoExc)
    ELSE IF resp.status = "raise"
    THEN Effect(a, <<RunCall(a, FindInput(a.feed_url, topic))>>, <<"Searching">>,
                resp.exc)
    ELSE Effect(a, <<RunCall(a, FindInput(a.feed_url, topic))>>,
                <<"Searching", "Output">>, NoExc)

\* summarize_episode with the test of feed_url left out
SummarizeEpisode_NoGuard(a, episode_number, resp) ==
    IF resp.status = "raise"
    THEN Effect(a, <<RunCall(a, SummarizeInput(a.feed_url, episode_number))>>,
                <<"Summarizing">>, resp.exc)
    ELSE Effect(a, <<RunCall(a, SummarizeInput(a.feed_url, episode_number))>>,
                <<"Summarizing", "EpisodeSummary", "Output">>, NoExc)

\* summarize_episode
SummarizeEpisode(a, episode_number, resp) ==
    IF ~Truthy(a.feed_url)
    THEN Effect(a, <<>>, <<"NoFeedLoaded">>, NoExc)
    ELSE IF resp.status = "raise"
    THEN Effect(a, <<RunCall(a, SummarizeInput(a.feed_url, episode_number))>>,
                <<"Summarizing">>, resp.exc)
    ELSE Effect(a, <<RunCall(a, SummarizeInput(a.feed_url, episode_number))>>,
                <<"Summarizing", "EpisodeSummary", "Output">>, NoExc)

\* if topic.startswith(p): topic = topic[n:].strip()
DropLeading(topic, p, n) == IF StartsWith(topic, p) THEN Strip(From(topic, n)) ELSE topic

\* the topic of a "which episode" question with the "about " step left out
WhichTopic_IsAboutOnly(command) ==
    DropLeading(Strip(Remove(Remove(Lower(command), PhraseEpisode), PhraseEposide)),
                IsAbout, 9)

\* the topic of a "which episode" question
WhichTopic(command) ==
    DropLeading(
        DropLeading(Strip(Remove(Remove(Lower(command), PhraseEpisode), PhraseEposide)),
                    IsAbout, 9),
        About, 6)

Parsed(branch, text, number) == [branch |-> branch, text |-> text, number |-> number]

\* int(command[10:].strip()): the number, or the ValueError
ParseEpisode(arg) ==
    IF IsIntLiteral(arg)
    THEN Parsed("summarize", arg, IntValue(arg))
    ELSE Parsed("summarize_value_error", arg, 0)

\* the if/elif chain of process_command on command and low = command.lower()
Classify(command, low) ==
    IF StartsWith(low, PrefixFeed) THEN Parsed("feed", Strip(From(command, 5)), 0)
    ELSE IF StartsWith(low, PrefixFind) THEN Parsed("find", Strip(From(command, 5)), 0)
    ELSE IF StartsWith(low, PrefixSummarize) THEN ParseEpisode(Strip(From(command, 10)))
    ELSE IF low = CmdHelp THEN Parsed("help", command, 0)
    ELSE IF low = CmdExit THEN Parsed("exit", command, 0)
    ELSE IF StartsWith(low, PhraseEpisode) \/ StartsWith(low, PhraseEposide)
    THEN Parsed("which", WhichTopic(command), 0)
    ELSE Parsed("query", command, 0)

\* which branch of process_command runs, and the URL, topic, number or query
\* it cuts out of the line
Dispatch(command) == Classify(command, Lower(command))

\* Dispatch, computed once for each line of the model
DispatchTable == {<<line, Dispatch(line)>> : line \in Lines}

DispatchOf(line) == (CHOOSE p \in DispatchTable : p[1] = line)[2]

\* context with "is not None" in place of the truth test of feed_url
Context_NotNone(a) ==
    IF a.feed_url # None THEN ContextHead \o a.feed_url \o ContextTail ELSE <<>>

\* context in the general-query branch
Context(a) ==
    IF Truthy(a.feed_url) THEN ContextHead \o a.feed_url \o ContextTail ELSE <<>>

\* the general-query branch of process_command
GeneralQuery(a, command, resp) ==
    IF resp.status = "raise"
    THEN Effect(a, <<RunCall(a, QueryInput(Context(a) \o command))>>, <<>>, resp.exc)
    ELSE Effect(a, <<RunCall(a, QueryInput(Context(a) \o command))>>, <<"Output">>,
                NoExc)

\* except ValueError: of the summarize branch, around what summarize_episode did
ExceptValueError(e) ==
    IF e.exc = "ValueError"
    THEN Effect(e.a, e.calls, Append(e.printed, "InvalidEpisode"), NoExc)
    ELSE e

\* the summarize branch of process_command: int() and summarize_episode run
\* inside one try block whose handler catches ValueError
SummarizeCommand(a, d, resp) ==
    IF d.branch = "summarize_value_error"
    THEN Effect(a, <<>>, <<"InvalidEpisode">>, NoExc)
    ELSE ExceptValueError(SummarizeEpisode(a, d.number, resp))

\* the help branch of process_command
HelpCommand(a) ==
    Effect(a, <<>>,
           <<"Help">>
               \o (IF Truthy(a.feed_url)
                   THEN <<"CurrentFeed">>
                            \o (IF Truthy(a.podcast_title) THEN <<"HelpTitle">> ELSE <<>>)
                   ELSE <<>>),
           NoExc)

\* the "which episode" branch of process_command
WhichCommand(a, topic, resp) ==
    IF topic # <<>>
    THEN FindEpisodesByTopic(a, topic, resp)
    ELSE Effect(a, <<>>, <<"AskTopic">>, NoExc)

\* the body of the branch of process_command that d selects
Branch(a, d, command, resp) ==
    CASE d.branch = "feed" -> FetchFeed(a, d.text, resp)
      [] d.branch = "find" -> FindEpisodesByTopic(a, d.text, resp)
      [] d.branch \in {"summarize", "summarize_value_error"} -> SummarizeCommand(a, d, resp)
      [] d.branch = "help" -> HelpCommand(a)
      [] d.branch = "exit" -> Effect(a, <<>>, <<>>, NoExc)
      [] d.branch = "which" -> WhichCommand(a, d.text, resp)
      [] OTHER -> GeneralQuery(a, command, resp)

\* the value process_command returns: False in the exit branch, True at the
\* end of every other one, "raised" when an exception leaves the method
Returned(d, e) ==
    [a |-> e.a, calls |-> e.calls, printed |-> e.printed, exc |-> e.exc,
     ret |-> IF e.exc # NoExc THEN "raised"
             ELSE IF d.branch = "exit" THEN "False"
             ELSE "True"]

\* process_command
ProcessCommand(a, command, resp) ==
    Returned(DispatchOf(command), Branch(a, DispatchOf(command), command, resp))

(***************************************************************************)
(* The program: __main__, main, interactive_mode                            *)
(***************************************************************************)
VARIABLES
    pc,             \* where the program is
    node_found,     \* shutil.which("node") finds the runtime
    api_key,        \* os.environ.get("OPENAI_API_KEY"): a text or None
    rss_feed,       \* args.rss_feed
    server,         \* the tool-process: "not_started", "running", "stopped"
    server_starts,  \* how many times the tool-process was started
    assistant,      \* the PodcastAssistant (the value __init__ gives it until
                    \* interactive_mode constructs it)
    pending,        \* the exception on its way to the process boundary
    prompts,        \* prompts shown by the command loop
    agent_calls,    \* Runner.run calls made so far
    last_command,   \* the line the last step processed, None if it read none
    last_pre,       \* the assistant before the last step
    last_calls,     \* the Runner.run calls of the last step
    last_printed,   \* the messages the last step printed
    last_agent_exc, \* the exception Runner.run raised in the last step
    last_ret        \* what process_command returned in the last step

vars == <<pc, node_found, api_key, rss_feed, server, server_starts, assistant, pending,
          prompts, agent_calls, last_command, last_pre, last_calls, last_printed,
          last_agent_exc, last_ret>>

env == <<node_found, api_key, rss_feed>>

hist == <<last_command, last_pre, last_calls, last_printed, last_agent_exc, last_ret>>

Init ==
    /\ pc = "start"
    /\ node_found \in BOOLEAN
    /\ api_key \in {None, <<>>, <<"k">>}
    /\ rss_feed \in {<<>>, U1}
    /\ server = "not_started"
    /\ server_starts = 0
    /\ assistant = NewAssistant
    /\ pending = NoExc
    /\ prompts = 0
    /\ agent_calls = 0
    /\ last_command = None
    /\ last_pre = NewAssistant
    /\ last_calls = <<>>
    /\ last_printed = <<>>
    /\ last_agent_exc = NoExc
    /\ last_ret = "none"

\* the two checks with "is None" in place of the truth test of the key
StartupError_KeyNotNone(node, key) ==
    IF ~node THEN "RuntimeError"
    ELSE IF key = None THEN "RuntimeError"
    ELSE NoExc

\* the two checks under __main__: the error raised, NoExc when both pass
StartupError(node, key) ==
    IF ~node THEN "RuntimeError"
    ELSE IF ~Truthy(key) THEN "RuntimeError"
    ELSE NoExc

\* __main__ up to asyncio.run(main())
StartupChecks ==
    /\ pc = "start"
    /\ pending' = StartupError(node_found, api_key)
    /\ pc' = IF pending' # NoExc THEN "startup_failed" ELSE "main"
    /\ UNCHANGED <<env, server, server_starts, assistant, prompts, agent_calls, hist>>

\* main: entering async with MCPServerStdio(...) starts the tool-process, or
\* fails without leaving one behind
ServerEnter ==
    /\ pc = "main"
    /\ \/ /\ server' = "running"
          /\ server_starts' = server_starts + 1
          /\ pc' = "interactive"
          /\ pending' = pending
       \/ /\ server' = server
          /\ server_starts' = server_starts
          /\ pc' = "crashed"
          /\ pending' = "RuntimeError"
    /\ UNCHANGED <<env, assistant, prompts, agent_calls, hist>>

\* the Runner.run calls of a step, each with the state of the tool-process
\* when it was made
Made(cs) == [i \in 1..Len(cs) |-> [agent |-> cs[i].agent, input |-> cs[i].input,
                                   server |-> server]]

\* what a step leaves behind: the assistant, the record of the step, the
\* exception on its way out and the place the program goes to
Step(e, line, resp, goes_to) ==
    /\ assistant' = e.a
    /\ last_command' = line
    /\ last_pre' = assistant
    /\ last_calls' = Made(e.calls)
    /\ last_printed' = e.printed
    /\ last_agent_exc' = (IF e.calls # <<>> THEN resp.exc ELSE NoExc)
    /\ last_ret' = e.ret
    /\ agent_calls' = agent_calls + Len(e.calls)
    /\ pending' = e.exc
    /\ pc' = goes_to

\* assistant.start called outside the async with block: its exception reaches
\* the process boundary with the tool-process still running
AfterStart_Unscoped(e) == IF e.exc # NoExc THEN "crashed" ELSE "prompt"

\* where an exception raised by assistant.start goes: it is raised before the
\* try block of interactive_mode, so it leaves the async with directly
AfterStart(e) == IF e.exc # NoExc THEN "aexit" ELSE "prompt"

NoReturn(e) ==
    [a |-> e.a, calls |-> e.calls, printed |-> e.printed, exc |-> e.exc, ret |-> "none"]

\* interactive_mode up to the try block
InteractiveStart ==
    /\ pc = "interactive"
    /\ \E resp \in Responses :
          Step(NoReturn(Start(NewAssistant, rss_feed, resp)), None, resp,
               AfterStart(Start(NewAssistant, rss_feed, resp)))
    /\ UNCHANGED <<env, server, server_starts, prompts>>

\* where the loop goes after process_command: on, or to the finally block
AfterCommand(r) == IF r.ret = "True" THEN "prompt" ELSE "cleanup"

\* one turn of the loop: input() returns a line, process_command handles it
Command ==
    /\ pc = "prompt"
    /\ prompts < MaxCommands
    /\ \E line \in Lines, resp \in Responses :
          Step(ProcessCommand(assistant, line, resp), line, resp,
               AfterCommand(ProcessCommand(assistant, line, resp)))
    /\ prompts' = prompts + 1
    /\ UNCHANGED <<env, server, server_starts>>

\* the input stream is closed: input() raises EOFError at the prompt
EndOfInput ==
    /\ pc = "prompt"
    /\ prompts' = prompts + 1
    /\ pending' = "EOFError"
    /\ pc' = "cleanup"
    /\ last_command' = None
    /\ last_pre' = assistant
    /\ last_calls' = <<>>
    /\ last_printed' = <<>>
    /\ last_agent_exc' = NoExc
    /\ last_ret' = "none"
    /\ UNCHANGED <<env, server, server_starts, assistant, agent_calls>>

\* the finally block of interactive_mode: assistant.cleanup(), which does
\* nothing because temp_dir is never set
Cleanup ==
    /\ pc = "cleanup"
    /\ pc' = "aexit"
    /\ UNCHANGED <<env, server, server_starts, assistant, pending, prompts, agent_calls,
                   hist>>

\* leaving async with MCPServerStdio(...): the tool-process is stopped and a
\* pending exception goes on to the process boundary
ServerExit ==
    /\ pc = "aexit"
    /\ server' = "stopped"
    /\ pc' = IF pending = NoExc THEN "done" ELSE "crashed"
    /\ UNCHANGED <<env, server_starts, assistant, pending, prompts, agent_calls, hist>>

Next ==
    \/ StartupChecks
    \/ ServerEnter
    \/ InteractiveStart
    \/ Command
    \/ EndOfInput
    \/ Cleanup
    \/ ServerExit

Spec == Init /\ [][Next]_vars

\* the event loop runs a finally block and an async with exit once reached
FairSpec == Spec /\ WF_vars(Cleanup) /\ WF_vars(ServerExit)

(***************************************************************************)
(* Vocabulary of the properties                                             *)
(***************************************************************************)
\* the command shape of a line, read off its lower-cased text
ShapeLow(low) ==
    IF StartsWith(low, PrefixFeed) THEN "feed"
    ELSE IF StartsWith(low, PrefixFind) THEN "find"
    ELSE IF StartsWith(low, PrefixSummarize) THEN "summarize"
    ELSE IF low = CmdHelp THEN "help"
    ELSE IF low = CmdExit THEN "exit"
    ELSE IF StartsWith(low, PhraseEpisode) \/ StartsWith(low, PhraseEposide) THEN "which"
    ELSE "query"

ShapeTable == {<<line, ShapeLow(Lower(line))>> : line \in Lines}

Shape(line) == (CHOOSE p \in ShapeTable : p[1] = line)[2]

\* the last step was a turn of the command loop on a line of the given shape
Ran(shape) == last_command # None /\ Shape(last_command) = shape

\* the text after a prefix of n characters, trimmed
After(line, n) == Strip(From(line, n))

\* process_command returned True and the loop shows the next prompt
KeepsRunning == last_ret = "True" /\ pc = "prompt"

\* the session's feed URL and title are what they were before the step
SessionUnchanged ==
    /\ assistant.feed_url = last_pre.feed_url
    /\ assistant.podcast_title = last_pre.podcast_title

\* the step made exactly one agent call, with this input
OneCall(input) == Len(last_calls) = 1 /\ last_calls[1].input = input

\* the step made no agent call and printed exactly this message
OnlyPrinted(message) == last_calls = <<>> /\ last_printed = <<message>>

NoFeedReported == OnlyPrinted("NoFeedLoaded")

\* the step reported an invalid episode number and did nothing else
NotANumber ==
    /\ OnlyPrinted("InvalidEpisode")
    /\ assistant = last_pre
    /\ KeepsRunning

\* the topic search ran with this topic
Searched(topic) ==
    IF Truthy(last_pre.feed_url)
    THEN OneCall(FindInput(last_pre.feed_url, topic))
    ELSE NoFeedReported

\* a "which episode" question with this topic: searched, or a topic asked for
WhichRouted(topic) ==
    IF topic # <<>> THEN Searched(topic) ELSE OnlyPrinted("AskTopic")

\* the rest of the line after the phrase, in the case it was typed, without a
\* leading "is about " or "about "
RestOfLine(rest) ==
    IF StartsWith(Lower(rest), IsAbout) THEN Strip(From(rest, 9))
    ELSE IF StartsWith(Lower(rest), About) THEN Strip(From(rest, 6))
    ELSE rest

\* the steps that make the topic out of the lower-cased line
WithoutAbout(t) == IF StartsWith(t, About) THEN Strip(From(t, 6)) ELSE t

WithoutIsAbout(t) == IF StartsWith(t, IsAbout) THEN Strip(From(t, 9)) ELSE t

LoweredTopic(line) ==
    WithoutAbout(WithoutIsAbout(
        Strip(Remove(Remove(Lower(line), PhraseEpisode), PhraseEposide))))

\* a feed line makes one fetch call for its URL and, once the call has
\* returned, the URL is the session's feed URL
FeedStored ==
    Ran("feed") =>
        /\ OneCall(FetchInput(After(last_command, 5)))
        /\ last_agent_exc = NoExc =>
               /\ assistant.feed_url # None
               /\ assistant.feed_url = After(last_command, 5)

\* the step from this state to the next is a turn of the loop on a find line
\* or on a summarize line with a number
FindOrSummarizeNext ==
    /\ prompts' = prompts + 1
    /\ last_command' # None
    /\ \/ Shape(last_command') = "find"
       \/ /\ Shape(last_command') = "summarize"
          /\ IsIntLiteral(After(last_command', 10))

\* that turn makes an agent call and prints no "no feed loaded" message
ReachesAgentNext ==
    /\ Len(last_calls') = 1
    /\ \A i \in 1..Len(last_printed') : last_printed'[i] # "NoFeedLoaded"

\* the command loop is over, or the first fetch failed
SessionOver ==
    pc \in {"cleanup", "aexit", "done"} \/ (pc = "crashed" /\ server_starts = 1)

\* started at most once and before any agent call; running at every agent
\* call and while the session runs; not running once the program has ended
ToolProcessScoped ==
    /\ server_starts <= 1
    /\ agent_calls > 0 => server_starts = 1
    /\ \A i \in 1..Len(last_calls) : last_calls[i].server = "running"
    /\ pc \in {"interactive", "prompt"} => server = "running"
    /\ pc \in {"done", "crashed"} => server # "running"

(***************************************************************************)
(* C1: for a line that starts with "find " in any case, with a feed loaded  *)
(* the step makes exactly one agent call naming the current feed URL and    *)
(* the text after the prefix, trimmed, in the case it was typed; with no    *)
(* feed loaded it prints the "no feed loaded" message and makes no agent    *)
(* call.  The feed URL and the title are unchanged, and the loop keeps      *)
(* running once the call has returned.                                      *)
(***************************************************************************)
C1_FindRouting ==
    Ran("find") =>
        /\ SessionUnchanged
        /\ IF Truthy(last_pre.feed_url)
           THEN /\ OneCall(FindInput(last_pre.feed_url, After(last_command, 5)))
                /\ (last_agent_exc = NoExc => KeepsRunning)
           ELSE NoFeedReported /\ KeepsRunning

C1_Witness ==
    /\ Ran("find")
    /\ Truthy(last_pre.feed_url)
    /\ OneCall(FindInput(U1, <<"T","e","a">>))
    /\ KeepsRunning

(***************************************************************************)
(* C2: for a line that starts with "summarize " in any case, when the text  *)
(* after the prefix, trimmed, is an integer N the step makes one agent call *)
(* naming episode N and the current feed URL; when it is not, the step      *)
(* prints the invalid-episode-number message, makes no agent call, leaves   *)
(* the session as it was and the loop keeps running.                        *)
(***************************************************************************)
C2_Original ==
    Ran("summarize") =>
        IF IsIntLiteral(After(last_command, 10))
        THEN OneCall(SummarizeInput(last_pre.feed_url, IntValue(After(last_command, 10))))
        ELSE NotANumber

(***************************************************************************)
(* C2 as amended: the agent call for episode N is made when a feed is       *)
(* loaded; with no feed loaded the step prints the "no feed loaded"         *)
(* message and makes no agent call.                                         *)
(***************************************************************************)
C2_SummarizeRouting ==
    Ran("summarize") =>
        IF IsIntLiteral(After(last_command, 10))
        THEN IF Truthy(last_pre.feed_url)
             THEN OneCall(SummarizeInput(last_pre.feed_url,
                                         IntValue(After(last_command, 10))))
             ELSE NoFeedReported /\ KeepsRunning
        ELSE NotANumber

C2_Witness ==
    /\ Ran("summarize")
    /\ last_command # <<"s","u","m","m","a","r","i","z","e"," ","3">>
    /\ OneCall(SummarizeInput(U1, 3))
    /\ last_printed = <<"Summarizing", "EpisodeSummary", "Output">>

(***************************************************************************)
(* C3: "exit" ends the command loop with no agent call; a line of no        *)
(* command shape is forwarded as a general query: exactly one agent call    *)
(* whose input is the line unchanged, with "Using the podcast feed <url>: " *)
(* before it exactly when a feed is set, and the loop keeps running once    *)
(* the call has returned.                                                   *)
(***************************************************************************)
C3_ExitAndQuery ==
    /\ Ran("exit") =>
           /\ last_calls = <<>>
           /\ last_ret = "False"
           /\ pending = NoExc
           /\ pc \in {"cleanup", "aexit", "done"}
    /\ Ran("query") =>
           /\ OneCall(QueryInput(
                  (IF Truthy(last_pre.feed_url)
                   THEN ContextHead \o last_pre.feed_url \o ContextTail
                   ELSE <<>>) \o last_command))
           /\ (last_agent_exc = NoExc => KeepsRunning)

C3_Witness ==
    /\ Ran("query")
    /\ last_pre.feed_url = U1
    /\ OneCall(QueryInput(ContextHead \o U1 \o ContextTail \o <<"h","i">>))
    /\ KeepsRunning

(***************************************************************************)
(* C5: for a line that starts with "which episode" or "which eposide" in    *)
(* any case, the topic is what remains of the line after that phrase and an *)
(* optional leading "is about " or "about "; a non-empty topic goes to the  *)
(* topic search with exactly that topic, an empty one prints a request for  *)
(* a topic and makes no agent call.                                         *)
(***************************************************************************)
C5_Original ==
    Ran("which") => WhichRouted(RestOfLine(After(last_command, 13)))

(***************************************************************************)
(* C5 as amended: the topic is taken from the lower-cased line, by removing *)
(* every occurrence of "which episode", then every occurrence of            *)
(* "which eposide", trimming, then dropping a leading "is about " and then  *)
(* a leading "about ", trimming after each.                                 *)
(***************************************************************************)
C5_WhichRouting ==
    Ran("which") => WhichRouted(LoweredTopic(last_command))

C5_Witness ==
    /\ Ran("which")
    /\ After(last_command, 13) = <<"i","s"," ","a","b","o","u","t"," ","T","e","a">>
    /\ OneCall(FindInput(U1, <<"t","e","a">>))

(***************************************************************************)
(* C6: a failure raised by the agent runner or the tool-process during a    *)
(* command is never caught or replaced by a message: it leaves              *)
(* process_command, ends the session, and no further prompt is shown.       *)
(***************************************************************************)
C6_FailuresPropagate ==
    last_agent_exc # NoExc =>
        /\ pending = last_agent_exc
        /\ last_ret # "True"
        /\ pc # "prompt"
        /\ \A i \in 1..Len(last_printed) : last_printed[i] # "InvalidEpisode"

(***************************************************************************)
(* C8: when node is not found, or OPENAI_API_KEY is absent or empty, the    *)
(* program fails at once: the tool-process is never started, no agent call  *)
(* is made and no prompt is shown.                                          *)
(***************************************************************************)
C8_StartupChecks ==
    (~node_found \/ api_key = None \/ api_key = <<>>) =>
        /\ pc \in {"start", "startup_failed"}
        /\ (pc = "startup_failed" => pending = "RuntimeError")
        /\ server = "not_started"
        /\ server_starts = 0
        /\ agent_calls = 0
        /\ prompts = 0

C8_Witness == pc = "startup_failed" /\ node_found /\ api_key = <<>>

(***************************************************************************)
(* C9: whenever the prompt is shown, the agent in use was built with feed   *)
(* context for exactly the session's current feed URL, and with no feed     *)
(* context exactly when no feed is loaded.                                  *)
(***************************************************************************)
C9_AgentMatchesFeed ==
    pc = "prompt" =>
        assistant.agent.instr_feed =
            (IF Truthy(assistant.feed_url) THEN assistant.feed_url ELSE None)

C9_Witness ==
    /\ pc = "prompt"
    /\ Ran("feed")
    /\ last_pre.agent.instr_feed = U1
    /\ assistant.feed_url = <<"u","2">>
    /\ assistant.agent.instr_feed = <<"u","2">>

(***************************************************************************)
(* C10: a defined podcast title was extracted from the response to the      *)
(* fetch of the current feed: a feed command that switches to a new feed    *)
(* and finds no title in the response leaves no title of the previous feed  *)
(* in the session or in the agent's instructions.                           *)
(***************************************************************************)
C10_TitleOfCurrentFeed ==
    (/\ Ran("feed")
     /\ last_agent_exc = NoExc
     /\ assistant.feed_url # last_pre.feed_url
     /\ Truthy(assistant.feed_url)
     /\ \A i \in 1..Len(last_printed) : last_printed[i] # "PodcastTitle") =>
        /\ assistant.podcast_title = None
        /\ assistant.agent.instr_title = None

(***************************************************************************)
(* C4: for a line that starts with "feed " in any case, the step makes      *)
(* exactly one agent call naming the text after the prefix, trimmed, as the *)
(* URL; once the call has returned the session's feed URL is defined and is *)
(* that URL, and a find or summarize command that follows reaches the agent *)
(* instead of printing the "no feed loaded" message.                        *)
(***************************************************************************)
C4_Original ==
    /\ []FeedStored
    /\ [][(Ran("feed") /\ last_agent_exc = NoExc /\ FindOrSummarizeNext)
              => ReachesAgentNext]_vars

(***************************************************************************)
(* C4 as amended: the following find or summarize command reaches the agent *)
(* when the URL is not empty; after "feed " with nothing but blanks behind  *)
(* it the feed URL is the empty text and the following find or summarize    *)
(* prints the "no feed loaded" message.                                     *)
(***************************************************************************)
C4_FeedRouting ==
    /\ []FeedStored
    /\ [][(Ran("feed") /\ last_agent_exc = NoExc /\ FindOrSummarizeNext)
              => IF After(last_command, 5) # <<>>
                 THEN ReachesAgentNext
                 ELSE last_calls' = <<>> /\ last_printed' = <<"NoFeedLoaded">>]_vars

C4_Witness ==
    /\ prompts = 2
    /\ Ran("find")
    /\ last_pre.feed_url = <<"u","2">>
    /\ last_pre.agent.instr_feed = <<"u","2">>
    /\ Len(last_calls) = 1

(***************************************************************************)
(* C7: the tool-process is started at most once, before the first agent     *)
(* call; every agent call is made while it is running; and however the      *)
(* session ends (exit, end of input, a failure in the first fetch or in a   *)
(* later command) the tool-process is eventually stopped.                   *)
(***************************************************************************)
C7_ToolProcess ==
    /\ []ToolProcessScoped
    /\ SessionOver ~> (server = "stopped")

C7_Witness ==
    /\ pc = "crashed"
    /\ server = "stopped"
    /\ server_starts = 1
    /\ last_command = None
    /\ last_agent_exc = "RuntimeError"
    /\ agent_calls = 1

====
